---- MODULE Spec2Model ----
(***************************************************************************)
(* KNIME workflow dashboard (app.py): the Slack event parser, the history  *)
(* store (workflow_history.json) and the /api/refresh handler.             *)
(*                                                                         *)
(* Representation.  A message text is a sequence of tokens (strings); the  *)
(* tokens a regular expression of app.py looks for are tokens of their     *)
(* own: "Starting Nightly Process", "Nightly Process Completed", ":",      *)
(* "Completed in", "Failure", the line break "\n", numbers and the units   *)
(* min/mins/sec/secs.  Optional white space between tokens is not          *)
(* modelled.  Every Python string built from a text (workflow_name,        *)
(* error_message) is the token sequence it is made of, '' is <<>>.         *)
(* A timestamp is a whole number of seconds since the epoch; a calendar    *)
(* date is a day number; the string form of a date is <<day>> and, with a  *)
(* time of day embedded (legacy stores), <<day, seconds>>.  A DataFrame is *)
(* the sequence of its rows, each row a function from column names.        *)
(* datetime.fromtimestamp is taken in a zone without clock changes: the    *)
(* difference of two datetimes is the difference of their timestamps.      *)
(***************************************************************************)
EXTENDS Integers, Sequences, FiniteSets, TLC

VARIABLES
    channel,      \* messages posted to the Slack channel, in arrival order
    oldest,       \* start of the lookback window (now - 90 days), as a timestamp
    store,        \* workflow_history.json: [state: "missing" | "corrupt" | "ok", rows: JSON records]
    resp,         \* the last response of /api/refresh
    pc,           \* per request thread: position inside refresh_data
    new_df,       \* per request thread: the local new_df
    history_df,   \* per request thread: the local history_df
    workflow_data, \* result of the last direct call of parse_workflow_data
    duration_text,  \* argument of a direct call of parse_duration, token by token
    total_seconds  \* result of that call, None before it

vars == <<channel, oldest, store, resp, pc, new_df, history_df, workflow_data,
          duration_text, total_seconds>>

---------------------------------------------------------------------------
\* Bounds of the model.

\* Most messages in the channel window (refresh specifications).
MaxMsgs == 3
\* Most messages in a batch handed to the parser directly (SpecParse).
MaxBatch == 4
\* Messages are posted at the instants 0..MaxTime, counted in half days.
MaxTime == 3
\* Messages per conversations_history page (limit=1000 in the code, scaled down).
PageLimit == 2
\* Most tokens of a text handed to parse_duration directly (SpecDuration).
MaxTokens == 5
\* Most messages of a batch handed to the parser in any order (SpecOrder).
MaxShuffle == 3

\* Seconds per calendar day: datetime.date() of a timestamp.
SecondsPerDay == 86400

\* Python's None for current_date, start_time, prev_msg_datetime.
None == -1

Procs == {1, 2}

\* Timestamps (seconds since the epoch) a message can carry: midnight and noon of each day.
TimeStamps == {t * (SecondsPerDay \div 2) : t \in 0..MaxTime}

---------------------------------------------------------------------------
\* Message texts.

StartText == <<"Starting Nightly Process">>
EndText   == <<"Nightly Process Completed">>
BuildDone == <<"Build", ":", "Completed in", "2", "mins">>
LoadFail  == <<"Load", ":", "Failure", ":", "disk full">>
Chatter   == <<"hello">>
\* A completion line that names the session total.
TotalDone == <<"TOTAL_NIGHTLY_PROCESS", ":", "Completed in", "45", "secs">>
\* Texts that match several patterns: both markers in a line of completion shape;
\* the end marker in a line of failure and completion shape; a line of failure
\* and completion shape.
StartDone == <<"Starting Nightly Process", "Nightly Process Completed", ":",
               "Completed in", "1", "min">>
EndDone   == <<"Nightly Process Completed", ":", "Failure", ":", "Completed in", "1", "min">>
FailDone  == <<"Sync", ":", "Failure", ":", "Completed in", "1", "min">>

Texts == {StartText, EndText, BuildDone, LoadFail, Chatter,
          TotalDone, StartDone, EndDone, FailDone}

\* The texts posted while the refresh handler is followed.
RefreshTexts == {StartText, BuildDone, LoadFail}

\* int() of a run of digits.
IntOf(tok) ==
    CASE tok = "1" -> 1 [] tok = "2" -> 2 [] tok = "19" -> 19
      [] tok = "42" -> 42 [] tok = "45" -> 45 [] OTHER -> 0

IsDigits(tok) == tok \in {"1", "2", "19", "42", "45"}

\* The positions i where (\d+)\s*<unit>s? matches: a number directly before a unit token.
UnitMatches(s, units) ==
    {i \in 1..(Len(s) - 1) : IsDigits(s[i]) /\ s[i + 1] \in units}

MinOf(S) == CHOOSE x \in S : \A y \in S : x <= y

MaxOf(S) == CHOOSE x \in S : \A y \in S : x >= y

\* A parse_duration that reads the last match of each unit instead of the first.
parse_duration_LastMatch(s) ==
    LET mins_match == UnitMatches(s, {"min", "mins"})
        secs_match == UnitMatches(s, {"sec", "secs"})
    IN  (IF mins_match # {} THEN IntOf(s[MaxOf(mins_match)]) * 60 ELSE 0)
      + (IF secs_match # {} THEN IntOf(s[MaxOf(secs_match)]) ELSE 0)

\* parse_duration: '19 mins, 42 secs' -> 1182.
parse_duration(s) ==
    LET mins_match == UnitMatches(s, {"min", "mins"})
        secs_match == UnitMatches(s, {"sec", "secs"})
    IN  (IF mins_match # {} THEN IntOf(s[MinOf(mins_match)]) * 60 ELSE 0)
      + (IF secs_match # {} THEN IntOf(s[MinOf(secs_match)]) ELSE 0)

\* 'marker' in text.
Contains(text, marker) == \E i \in 1..Len(text) : text[i] = marker

NoNewline(s) == \A i \in 1..Len(s) : s[i] # "\n"

\* str.strip(): white space (here, line breaks) off both ends.
RECURSIVE Strip(_)
Strip(s) ==
    IF s = <<>> THEN s
    ELSE IF Head(s) = "\n" THEN Strip(Tail(s))
    ELSE IF s[Len(s)] = "\n" THEN Strip(SubSeq(s, 1, Len(s) - 1))
    ELSE s

\* text.split('\n')[0] and the rest behind the first line break.
FirstBreak(text) ==
    IF NoNewline(text) THEN 0 ELSE MinOf({i \in 1..Len(text) : text[i] = "\n"})

FirstLine(text) ==
    IF FirstBreak(text) = 0 THEN text ELSE SubSeq(text, 1, FirstBreak(text) - 1)

RestLines(text) ==
    IF FirstBreak(text) = 0 THEN <<>> ELSE SubSeq(text, FirstBreak(text) + 1, Len(text))

\* re.match(r'^(.+?)\s*:\s*Completed in\s+(.+)$', text): the positions i where group 1
\* may end.  '.' matches no line break, so neither group spans one; both are non-empty.
\* '$' also matches before one line break that ends the text.
CompletionBody(text) ==
    IF text # <<>> /\ text[Len(text)] = "\n" THEN SubSeq(text, 1, Len(text) - 1) ELSE text

CompletionEnds(text) ==
    {i \in 1..(Len(CompletionBody(text)) - 3) :
        /\ text[i + 1] = ":"
        /\ text[i + 2] = "Completed in"
        /\ NoNewline(CompletionBody(text))}

\* re.match(r'^(.+?)\s*:\s*(Failure.*)', lines[0]): the positions i where group 1 may end.
FailureEnds(line) ==
    {i \in 1..(Len(line) - 2) : line[i + 1] = ":" /\ line[i + 2] = "Failure"}

Date(ts) == ts \div SecondsPerDay

\* The parse session before the first message.
ParseInit ==
    [current_date |-> None, start_time |-> None, prev_msg_datetime |-> None,
     workflow_data |-> <<>>]

Record(name, date, duration, ts, status, error) ==
    [workflow_name |-> name, date |-> date, duration_seconds |-> duration,
     timestamp |-> ts, status |-> status, error_message |-> error]

\* The rules without their 'and current_date'.
InSession_Always(st) == TRUE

\* 'and current_date' of the completion, failure and fallback rules.
InSession(st) == st.current_date # None

\* The failure duration measured from the session start instead.
FailureDuration_FromStart(st, msg_datetime) ==
    IF st.start_time # None THEN msg_datetime - st.start_time ELSE 0

\* Lines 160-162: seconds since the previous message, 0 without one.
FailureDuration(st, msg_datetime) ==
    IF st.prev_msg_datetime # None THEN msg_datetime - st.prev_msg_datetime ELSE 0

\* A start marker that keeps the start time of a session already open.
StartRule_KeepsFirst(st, msg_datetime) ==
    IF st.start_time # None
    THEN [st EXCEPT !.prev_msg_datetime = msg_datetime]
    ELSE [st EXCEPT !.current_date = Date(msg_datetime),
                    !.start_time = msg_datetime,
                    !.prev_msg_datetime = msg_datetime]

\* Lines 114-118: the start marker opens a session (again).
StartRule(st, msg_datetime) ==
    [st EXCEPT !.current_date = Date(msg_datetime),
               !.start_time = msg_datetime,
               !.prev_msg_datetime = msg_datetime]

\* An end marker that closes the session.
EndRule_ClosesSession(st, msg_datetime) ==
    [st EXCEPT
        !.workflow_data =
            IF st.start_time # None /\ st.current_date # None
            THEN Append(@, Record(<<"TOTAL_NIGHTLY_PROCESS">>, st.current_date,
                                  msg_datetime - st.start_time, msg_datetime,
                                  "success", <<>>))
            ELSE @,
        !.current_date = None,
        !.start_time = None,
        !.prev_msg_datetime = None]

\* Lines 121-133: the end marker; the session stays open.
EndRule(st, msg_datetime) ==
    [st EXCEPT
        !.workflow_data =
            IF st.start_time # None /\ st.current_date # None
            THEN Append(@, Record(<<"TOTAL_NIGHTLY_PROCESS">>, st.current_date,
                                  msg_datetime - st.start_time, msg_datetime,
                                  "success", <<>>))
            ELSE @,
        !.prev_msg_datetime = msg_datetime]

\* Lines 137-151: '<name>: Completed in <duration>'.
CompletionRule(st, text, msg_datetime) ==
    LET i == MinOf(CompletionEnds(text))
        workflow_name == Strip(SubSeq(text, 1, i))
        duration_str == Strip(SubSeq(text, i + 3, Len(CompletionBody(text))))
    IN  [st EXCEPT
            !.workflow_data =
                Append(@, Record(workflow_name, st.current_date,
                                 parse_duration(duration_str), msg_datetime,
                                 "success", <<>>)),
            !.prev_msg_datetime = msg_datetime]

\* Lines 156-179: '<name>: Failure...' on the first line.
FailureRule(st, text, msg_datetime) ==
    LET line == FirstLine(text)
        i == MinOf(FailureEnds(line))
        workflow_name == Strip(SubSeq(line, 1, i))
        duration_seconds == FailureDuration(st, msg_datetime)
        group2 == Strip(SubSeq(line, i + 2, Len(line)))
        error_message ==
            Strip(IF FirstBreak(text) # 0
                  THEN group2 \o <<"\n">> \o RestLines(text)
                  ELSE group2)
    IN  [st EXCEPT
            !.workflow_data =
                Append(@, Record(workflow_name, st.current_date, duration_seconds,
                                 msg_datetime, "error", error_message)),
            !.prev_msg_datetime = msg_datetime]

\* A fallback that leaves the baseline of failure durations alone.
FallbackRule_KeepsBaseline(st, msg_datetime) == st

\* Lines 181-183: any other message inside a session moves the baseline.
FallbackRule(st, msg_datetime) ==
    IF InSession(st) THEN [st EXCEPT !.prev_msg_datetime = msg_datetime] ELSE st

\* A loop body that tries the completion pattern before the markers.
ParseStep_CompletionFirst(st, msg) ==
    IF CompletionEnds(msg.text) # {} /\ InSession(st)
         THEN CompletionRule(st, msg.text, msg.ts)
    ELSE IF Contains(msg.text, "Starting Nightly Process") THEN StartRule(st, msg.ts)
    ELSE IF Contains(msg.text, "Nightly Process Completed") THEN EndRule(st, msg.ts)
    ELSE IF FailureEnds(FirstLine(msg.text)) # {} /\ InSession(st)
         THEN FailureRule(st, msg.text, msg.ts)
    ELSE FallbackRule(st, msg.ts)

\* One pass of the loop body of parse_workflow_data over message msg.
ParseStep(st, msg) ==
    IF Contains(msg.text, "Starting Nightly Process") THEN StartRule(st, msg.ts)
    ELSE IF Contains(msg.text, "Nightly Process Completed") THEN EndRule(st, msg.ts)
    ELSE IF CompletionEnds(msg.text) # {} /\ InSession(st)
         THEN CompletionRule(st, msg.text, msg.ts)
    ELSE IF FailureEnds(FirstLine(msg.text)) # {} /\ InSession(st)
         THEN FailureRule(st, msg.text, msg.ts)
    ELSE FallbackRule(st, msg.ts)

\* An insertion that puts a message before the messages of the same timestamp.
RECURSIVE InsertByTs_Unstable(_, _)
InsertByTs_Unstable(sorted, msg) ==
    IF sorted = <<>> THEN <<msg>>
    ELSE IF sorted[Len(sorted)].ts < msg.ts THEN Append(sorted, msg)
    ELSE Append(InsertByTs_Unstable(SubSeq(sorted, 1, Len(sorted) - 1), msg),
                sorted[Len(sorted)])

\* sorted(messages, key=lambda x: float(x['ts'])): stable insertion by timestamp.
RECURSIVE InsertByTs(_, _)
InsertByTs(sorted, msg) ==
    IF sorted = <<>> THEN <<msg>>
    ELSE IF sorted[Len(sorted)].ts <= msg.ts THEN Append(sorted, msg)
    ELSE Append(InsertByTs(SubSeq(sorted, 1, Len(sorted) - 1), msg), sorted[Len(sorted)])

\* No sort: the messages as they arrived.
SortByTs_AsArrived(messages) == messages

RECURSIVE SortByTs(_)
SortByTs(messages) ==
    IF messages = <<>> THEN <<>>
    ELSE InsertByTs(SortByTs(SubSeq(messages, 1, Len(messages) - 1)),
                    messages[Len(messages)])

RECURSIVE ParseLoop(_, _)
ParseLoop(st, messages) ==
    IF messages = <<>> THEN st
    ELSE ParseLoop(ParseStep(st, Head(messages)), Tail(messages))

\* parse_workflow_data(messages).
parse_workflow_data(messages) == ParseLoop(ParseInit, SortByTs(messages)).workflow_data

---------------------------------------------------------------------------
\* DataFrames and the history file.

\* str(date): 'YYYY-MM-DD'.
DateStr(d) == <<d>>

\* str(datetime): 'YYYY-MM-DD HH:MM:SS'.
TimestampStr(ts) == <<Date(ts), ts % SecondsPerDay>>

\* .str[:10]: the calendar-date part of a date string.
Str10(s) == SubSeq(s, 1, 1)

\* A missing cell of a column (NaN / null).
NaN(col) == IF col = "status" THEN "NaN" ELSE <<"NaN">>

\* new_df of refresh_data: pd.DataFrame(workflow_data) with date and timestamp as strings.
NewDf(data) ==
    [i \in 1..Len(data) |->
        [data[i] EXCEPT !.date = Str10(DateStr(@)), !.timestamp = TimestampStr(@)]]

Key(row) == <<row.workflow_name, row.date>>

\* drop_duplicates(subset=['workflow_name', 'date'], keep='last').
RECURSIVE DropDuplicates(_)
DropDuplicates(df) ==
    IF df = <<>> THEN <<>>
    ELSE IF \E j \in 2..Len(df) : Key(df[j]) = Key(Head(df))
         THEN DropDuplicates(Tail(df))
         ELSE <<Head(df)>> \o DropDuplicates(Tail(df))

\* Order of the characters the workflow names of the model start with.
TokRank(tok) ==
    CASE tok = "Build" -> 1 [] tok = "Load" -> 2 [] tok = "TOTAL_NIGHTLY_PROCESS" -> 3
      [] OTHER -> 0

\* a < b for strings: lexicographic.
RECURSIVE StrLess(_, _)
StrLess(a, b) ==
    IF b = <<>> THEN FALSE
    ELSE IF a = <<>> THEN TRUE
    ELSE IF TokRank(Head(a)) # TokRank(Head(b)) THEN TokRank(Head(a)) < TokRank(Head(b))
    ELSE StrLess(Tail(a), Tail(b))

\* Row order of sort_values(['date', 'workflow_name']).
RowLess(r, s) ==
    \/ r.date[1] < s.date[1]
    \/ r.date = s.date /\ StrLess(r.workflow_name, s.workflow_name)

RECURSIVE InsertRow(_, _)
InsertRow(sorted, row) ==
    IF sorted = <<>> THEN <<row>>
    ELSE IF ~RowLess(row, sorted[Len(sorted)]) THEN Append(sorted, row)
    ELSE Append(InsertRow(SubSeq(sorted, 1, Len(sorted) - 1), row), sorted[Len(sorted)])

\* sort_values(['date', 'workflow_name']).reset_index(drop=True): a stable sort.
RECURSIVE SortValues(_)
SortValues(df) ==
    IF df = <<>> THEN <<>>
    ELSE InsertRow(SortValues(SubSeq(df, 1, Len(df) - 1)), df[Len(df)])

\* pd.read_json(HISTORY_FILE, convert_dates=False) of a readable file: one row per
\* record, one column per key any record has, NaN where a record lacks the key.
Columns(rows) == UNION {DOMAIN rows[i] : i \in 1..Len(rows)}

ReadJson(rows) ==
    [i \in 1..Len(rows) |->
        [c \in Columns(rows) |-> IF c \in DOMAIN rows[i] THEN rows[i][c] ELSE NaN(c)]]

\* df[col] = value when col is no column of df.
WithColumn(df, cols, col, value) ==
    IF col \in cols THEN df
    ELSE [i \in 1..Len(df) |->
            [c \in cols \cup {col} |-> IF c = col THEN value ELSE df[i][c]]]

\* df['error_message'].fillna('').
FillNa(df) ==
    [i \in 1..Len(df) |->
        [df[i] EXCEPT !.error_message = IF @ = NaN("error_message") THEN <<>> ELSE @]]

\* load_history(): the history file as a DataFrame; empty when it cannot be read.
load_history(file) ==
    IF file.state # "ok" THEN <<>>
    ELSE LET cols == Columns(file.rows)
             df1 == WithColumn(ReadJson(file.rows), cols, "status", "success")
             df2 == WithColumn(df1, cols \cup {"status"}, "error_message", <<>>)
             df3 == FillNa(df2)
         IN  IF "date" \in cols
             THEN DropDuplicates([i \in 1..Len(df3) |->
                                    [df3[i] EXCEPT !.date = Str10(@)]])
             ELSE df3

---------------------------------------------------------------------------
\* The feed: fetch_slack_messages.

\* conversations_history returns the messages of the window newest first.
RECURSIVE Reverse(_)
Reverse(s) == IF s = <<>> THEN <<>> ELSE Append(Reverse(Tail(s)), Head(s))

Min(a, b) == IF a <= b THEN a ELSE b

\* The k-th page of result["messages"].
Page(hist, k) == SubSeq(hist, (k - 1) * PageLimit + 1, Min(k * PageLimit, Len(hist)))

\* A pagination loop whose except clause returns the pages fetched so far.
RECURSIVE FetchPages_KeepsPages(_, _, _, _)
FetchPages_KeepsPages(hist, k, fault, messages) ==
    IF fault = k THEN messages
    ELSE IF k * PageLimit < Len(hist)
         THEN FetchPages_KeepsPages(hist, k + 1, fault, messages \o Page(hist, k))
         ELSE messages \o Page(hist, k)

\* The pagination loop; the API call for page `fault` raises SlackApiError, and the
\* except clause returns [] whatever was fetched before.
RECURSIVE FetchPages(_, _, _, _)
FetchPages(hist, k, fault, messages) ==
    IF fault = k THEN <<>>
    ELSE IF k * PageLimit < Len(hist)
         THEN FetchPages(hist, k + 1, fault, messages \o Page(hist, k))
         ELSE messages \o Page(hist, k)

\* Outcomes of the Slack API during one fetch: 0 no failure, -1 get_channel_id
\* returns None (channel not found, or an API error while listing), k >= 1 the
\* k-th conversations_history call fails.
Faults == -1..((MaxMsgs + PageLimit - 1) \div PageLimit)

\* conversations_history(oldest=...): the messages of the channel not older than `old`.
RECURSIVE Window(_, _)
Window(chan, old) ==
    IF chan = <<>> THEN <<>>
    ELSE IF Head(chan).ts >= old THEN <<Head(chan)>> \o Window(Tail(chan), old)
    ELSE Window(Tail(chan), old)

\* fetch_slack_messages(days_back=90).
fetch_slack_messages(chan, old, fault) ==
    IF fault = -1 THEN <<>> ELSE FetchPages(Reverse(Window(chan, old)), 1, fault, <<>>)

---------------------------------------------------------------------------
\* refresh_data.

NoResponse == [route |-> "none", success |-> FALSE, new_count |-> 0, total |-> 0, data |-> <<>>]

\* Merge with the history dropped whenever new records exist.
Merge_NewOnly(history, new) ==
    IF new # <<>> THEN [nodata |-> FALSE, merged |-> SortValues(DropDuplicates(new))]
    ELSE IF history # <<>> THEN [nodata |-> FALSE, merged |-> SortValues(history)]
    ELSE [nodata |-> TRUE, merged |-> <<>>]

\* Lines 227-242: the merged frame, or no data at all.
Merge(history, new) ==
    IF new # <<>> /\ history # <<>>
    THEN [nodata |-> FALSE, merged |-> SortValues(DropDuplicates(history \o new))]
    ELSE IF new # <<>> THEN [nodata |-> FALSE, merged |-> SortValues(new)]
    ELSE IF history # <<>> THEN [nodata |-> FALSE, merged |-> SortValues(history)]
    ELSE [nodata |-> TRUE, merged |-> <<>>]

\* A save that writes the file also when there is no data.
SavedFile_WritesEmpty(file, history, new) ==
    [state |-> "ok", rows |-> Merge(history, new).merged]

\* A save that reads the file again and merges into what it finds.
SavedFile_Rereads(file, history, new) ==
    IF new = <<>> /\ load_history(file) = <<>> THEN file
    ELSE [state |-> "ok",
          rows |-> SortValues(DropDuplicates(load_history(file) \o new))]

\* merged.to_json(HISTORY_FILE, orient='records'): the file after refresh_data.
SavedFile(file, history, new) ==
    IF Merge(history, new).nodata THEN file
    ELSE [state |-> "ok", rows |-> Merge(history, new).merged]

\* The JSON response of refresh_data.
Response(history, new) ==
    IF Merge(history, new).nodata
    THEN [route |-> "refresh", success |-> FALSE, new_count |-> 0, total |-> 0,
          data |-> <<>>]
    ELSE [route |-> "refresh", success |-> TRUE, new_count |-> Len(new),
          total |-> Len(Merge(history, new).merged),
          data |-> Merge(history, new).merged]

\* What one whole refresh_data call leaves in the file, given the API outcome.
RefreshFile(file, chan, old, fault) ==
    SavedFile(file, load_history(file),
              NewDf(parse_workflow_data(fetch_slack_messages(chan, old, fault))))

---------------------------------------------------------------------------
\* History files found at start-up.

LegacyRow(name, date, duration, ts) ==
    [workflow_name |-> name, date |-> date, duration_seconds |-> duration,
     timestamp |-> TimestampStr(ts)]

MissingFile == [state |-> "missing", rows |-> <<>>]
CorruptFile == [state |-> "corrupt", rows |-> <<>>]
\* Written by the generation of the program without status capture; dates with a time of day.
LegacyFile ==
    [state |-> "ok",
     rows |-> <<LegacyRow(<<"Build">>, <<0, 0>>, 100, 0),
                LegacyRow(<<"Build">>, <<0>>, 110, 0)>>]
\* Legacy records next to records with status.
MixedFile ==
    [state |-> "ok",
     rows |-> <<LegacyRow(<<"Build">>, <<0>>, 100, 0),
                [workflow_name |-> <<"Load">>, date |-> <<0>>, duration_seconds |-> 7,
                 timestamp |-> TimestampStr(0), status |-> "error",
                 error_message |-> <<"Failure", ":", "disk full">>]>>]

InitFiles == {MissingFile, CorruptFile, LegacyFile, MixedFile}

---------------------------------------------------------------------------
\* Actions.

Init ==
    /\ channel = <<>>
    /\ oldest = 0
    /\ store \in InitFiles
    /\ resp = NoResponse
    /\ pc = [p \in Procs |-> "idle"]
    /\ new_df = [p \in Procs |-> <<>>]
    /\ history_df = [p \in Procs |-> <<>>]
    /\ workflow_data = [called |-> FALSE, records |-> <<>>]
    /\ duration_text = <<>>
    /\ total_seconds = None

LastTs(chan) == IF chan = <<>> THEN -1 ELSE chan[Len(chan)].ts

\* The nightly process posts a message to the channel.
Post(texts, limit) ==
    /\ Len(channel) < limit
    /\ \E text \in texts, ts \in TimeStamps :
          /\ ts > LastTs(channel)
          /\ ts >= oldest
          /\ channel' = Append(channel, [text |-> text, ts |-> ts])
    /\ UNCHANGED <<oldest, store, resp, pc, new_df, history_df, workflow_data, duration_text, total_seconds>>

\* Time passes: the lookback window (oldest = now - 90 days) moves on by half a day.
Expire ==
    /\ oldest \in TimeStamps
    /\ oldest' = oldest + SecondsPerDay \div 2
    /\ UNCHANGED <<channel, store, resp, pc, new_df, history_df, workflow_data, duration_text, total_seconds>>

\* new_df of a refresh_data call that meets API outcome `fault`.
Fetched(fault) ==
    NewDf(parse_workflow_data(fetch_slack_messages(channel, oldest, fault)))

\* GET /api/refresh, served from start to end with no other request in between.
RefreshWith(fault) ==
    /\ store' = SavedFile(store, load_history(store), Fetched(fault))
    /\ resp' = Response(load_history(store), Fetched(fault))
    /\ UNCHANGED <<channel, oldest, pc, new_df, history_df, workflow_data, duration_text, total_seconds>>

Refresh == \E fault \in Faults : RefreshWith(fault)

PostMessage == Post(RefreshTexts, MaxMsgs)

Next == PostMessage \/ Expire \/ Refresh

\* One refresh at a time.
Spec == Init /\ [][Next]_vars

---------------------------------------------------------------------------
\* Two request threads inside refresh_data at once (the Flask server is threaded);
\* each serves one request.  The steps are the reads and writes of the shared file.

\* Lines 214-222: fetch, parse, new_df.
Fetch(p) ==
    /\ pc[p] = "idle"
    /\ \E fault \in Faults : new_df' = [new_df EXCEPT ![p] = Fetched(fault)]
    /\ pc' = [pc EXCEPT ![p] = "fetched"]
    /\ UNCHANGED <<channel, oldest, store, resp, history_df, workflow_data, duration_text, total_seconds>>

\* Line 225: history_df = load_history().
Load(p) ==
    /\ pc[p] = "fetched"
    /\ history_df' = [history_df EXCEPT ![p] = load_history(store)]
    /\ pc' = [pc EXCEPT ![p] = "loaded"]
    /\ UNCHANGED <<channel, oldest, store, resp, new_df, workflow_data, duration_text, total_seconds>>

\* Lines 227-252: merge, write the file, respond.
Save(p) ==
    /\ pc[p] = "loaded"
    /\ store' = SavedFile(store, history_df[p], new_df[p])
    /\ resp' = Response(history_df[p], new_df[p])
    /\ pc' = [pc EXCEPT ![p] = "done"]
    /\ UNCHANGED <<channel, oldest, new_df, history_df, workflow_data, duration_text, total_seconds>>

NextConc == PostMessage \/ (\E p \in Procs : Fetch(p) \/ Load(p) \/ Save(p))

SpecConc == Init /\ [][NextConc]_vars

---------------------------------------------------------------------------
\* parse_workflow_data on its own: a batch is drawn message by message, then parsed.

PostBatch ==
    /\ ~workflow_data.called
    /\ Post(Texts, MaxBatch)

\* parse_workflow_data(messages), the batch in the order the API returns it.
ParseBatch ==
    /\ ~workflow_data.called
    /\ workflow_data' =
          [called |-> TRUE, records |-> parse_workflow_data(Reverse(channel))]
    /\ UNCHANGED <<channel, oldest, store, resp, pc, new_df, history_df,
                   duration_text, total_seconds>>

NextParse == PostBatch \/ ParseBatch

\* The parser does not touch the history file: one file is enough here.
InitParse == Init /\ store = MissingFile

SpecParse == InitParse /\ [][NextParse]_vars

---------------------------------------------------------------------------
\* parse_duration called directly on a text written token by token.

DurationTokens == {"19", "42", "45", "min", "mins", "sec", "secs", ","}

TypeToken ==
    /\ total_seconds = None
    /\ Len(duration_text) < MaxTokens
    /\ \E tok \in DurationTokens : duration_text' = Append(duration_text, tok)
    /\ UNCHANGED <<channel, oldest, store, resp, pc, new_df, history_df,
                   workflow_data, total_seconds>>

ParseDuration ==
    /\ total_seconds = None
    /\ total_seconds' = parse_duration(duration_text)
    /\ UNCHANGED <<channel, oldest, store, resp, pc, new_df, history_df,
                   workflow_data, duration_text>>

NextDuration == TypeToken \/ ParseDuration

InitDuration == Init /\ store = MissingFile

SpecDuration == InitDuration /\ [][NextDuration]_vars

---------------------------------------------------------------------------
\* Properties of the history merge (checked under Spec).

\* The (workflow_name, calendar date) keys a file holds.
StoreKeys(file) ==
    IF file.state # "ok" THEN {}
    ELSE {<<file.rows[i].workflow_name, Str10(file.rows[i].date)>> : i \in 1..Len(file.rows)}

UniqueKeys(df) ==
    \A i, j \in 1..Len(df) : Key(df[i]) = Key(df[j]) => i = j

\* The file was written by a refresh: the last response reports success.
Written == resp.route = "refresh" /\ resp.success

\* C1: the history written by refresh holds at most one record per
\* (workflow_name, date), whatever the batches and the file found at start-up.
\* Fails: with no history, new_df is saved as parsed (line 232), duplicates included.
C1_UniqueKeysInStore == Written => UniqueKeys(store.rows)

\* C2: merge is idempotent in its incoming argument, and a second refresh on the
\* same batch leaves the file as the first one left it.
\* Fails for an empty history and an incoming set with a repeated key.
C2_MergeIdempotent ==
    \A fault \in Faults :
        LET existing == load_history(store)
            incoming == Fetched(fault)
            once == Merge(existing, incoming)
        IN  /\ Merge(once.merged, incoming) = once
            /\ RefreshFile(RefreshFile(store, channel, oldest, fault),
                           channel, oldest, fault)
                 = RefreshFile(store, channel, oldest, fault)

\* The last row of df with key k.
LastWithKey(df, k) ==
    df[CHOOSE i \in 1..Len(df) :
          /\ Key(df[i]) = k
          /\ \A j \in (i + 1)..Len(df) : Key(df[j]) # k]

\* C3: on a key collision merge keeps the last record in existing-then-incoming
\* order and nothing else with that key, for every existing set, empty or not.
\* Fails for an empty existing set: both incoming records of a key are kept.
C3_LastOccurrenceKept ==
    \A fault \in Faults :
        LET existing == load_history(store)
            incoming == Fetched(fault)
            all == existing \o incoming
            merged == Merge(existing, incoming).merged
        IN  \A i \in 1..Len(merged) : merged[i] = LastWithKey(all, Key(merged[i]))

---------------------------------------------------------------------------
\* Concurrent refreshes (checked under SpecConc).

Merged(p) == Merge(history_df[p], new_df[p])

\* Thread p has finished and has written the file.
Wrote(p) == pc[p] = "done" /\ ~Merged(p).nodata

KeysOf(df) == {Key(df[i]) : i \in 1..Len(df)}

\* C4: refreshes racing on load-merge-save lose updates, the last writer winning
\* wholesale: once both threads have written, the file is exactly the merged set of
\* one of them, whatever the other one saved.
C4_LastWriterWins ==
    (\A p \in Procs : Wrote(p)) =>
        \E p \in Procs : store = [state |-> "ok", rows |-> Merged(p).merged]

\* C4, the lost update: both threads loaded the same history, both have written,
\* and a key one of them saved is not in the file.
C4_LostUpdate ==
    /\ \A p \in Procs : Wrote(p)
    /\ history_df[1] = history_df[2]
    /\ \E p \in Procs : ~(KeysOf(Merged(p).merged) \subseteq StoreKeys(store))

---------------------------------------------------------------------------
\* Durability (checked under Spec).

\* C5: with one refresh at a time, a key once in the file stays in the file over
\* every later step, whatever the later batches are.
C5_KeysDurable == [][StoreKeys(store) \subseteq StoreKeys(store')]_vars

\* C5, its case: a refresh found every message expired (or the fetch failed), and
\* the file still holds a record parsed from the feed earlier.
C5_KeptAfterExpiry ==
    /\ Written
    /\ resp.new_count = 0
    /\ channel # <<>>
    /\ Window(channel, oldest) = <<>>
    /\ \E i \in 1..Len(store.rows) : store.rows[i].duration_seconds = 120

---------------------------------------------------------------------------
\* The parser (checked under SpecParse).

\* The batch start, "Build: Completed in 2 mins", "Load: Failure: disk full", end,
\* at timestamps T0 < T1 < T2 < T3.
ExampleBatch ==
    /\ Len(channel) = 4
    /\ channel[1].text = StartText
    /\ channel[2].text = BuildDone
    /\ channel[3].text = LoadFail
    /\ channel[4].text = EndText

\* Name, status, duration and error message of each record of the last parse.
ParsedFields ==
    [i \in 1..Len(workflow_data.records) |->
        <<workflow_data.records[i].workflow_name, workflow_data.records[i].status,
          workflow_data.records[i].duration_seconds,
          workflow_data.records[i].error_message>>]

\* The three records of the example, the Load record carrying error_message `error`.
ExampleFields(error) ==
    << <<<<"Build">>, "success", 120, <<>>>>,
       <<<<"Load">>, "error", channel[3].ts - channel[2].ts, error>>,
       <<<<"TOTAL_NIGHTLY_PROCESS">>, "success", channel[4].ts - channel[1].ts, <<>>>> >>

\* C6 as claimed: the example batch yields exactly Build (success, 120), Load (error,
\* T2-T1, error_message "disk full") and TOTAL_NIGHTLY_PROCESS (success, T3-T0).
C6_ExampleAsClaimed ==
    (workflow_data.called /\ ExampleBatch) => ParsedFields = ExampleFields(<<"disk full">>)

\* C6 as amended: the same three records, the error_message of Load being the text
\* from the word Failure on, "Failure: disk full".
C6_ExampleAsCoded ==
    (workflow_data.called /\ ExampleBatch) =>
        ParsedFields = ExampleFields(<<"Failure", ":", "disk full">>)

\* C6, its case: the example batch has been parsed.
C6_ExampleParsed == workflow_data.called /\ ExampleBatch

IsStart(msg) == Contains(msg.text, "Starting Nightly Process")

\* C7: every record stems from a message not older than the first start marker of
\* the batch, and a batch without start marker yields no record.
C7_NothingBeforeStart ==
    workflow_data.called =>
        /\ (\A i \in 1..Len(channel) : ~IsStart(channel[i])) => workflow_data.records = <<>>
        /\ \A j \in 1..Len(workflow_data.records) :
              \E i \in 1..Len(channel) :
                  IsStart(channel[i]) /\ channel[i].ts <= workflow_data.records[j].timestamp

\* C7, its case: a step line older than the first start marker was parsed without a
\* record, and a later message of the batch gave one.
C7_StepBeforeStart ==
    /\ workflow_data.called
    /\ Len(workflow_data.records) = 1
    /\ \E i, j, k \in 1..Len(channel) :
          /\ i < j /\ j < k
          /\ channel[i].text \in {BuildDone, LoadFail, EndText}
          /\ \A h \in 1..i : ~IsStart(channel[h])
          /\ IsStart(channel[j])
          /\ channel[k].text \in {BuildDone, LoadFail, EndText}

---------------------------------------------------------------------------
\* Error handling of refresh and load (checked under Spec).

\* conversations_history calls a fetch of n messages makes.
NumCalls(n) == IF n = 0 THEN 1 ELSE (n + PageLimit - 1) \div PageLimit

\* API outcome `fault` makes the fetch fail: no channel id, or an error on one of
\* the calls the fetch makes.
FetchFails(fault) ==
    \/ fault = -1
    \/ fault >= 1 /\ fault <= NumCalls(Len(Window(channel, oldest)))

\* C8: a refresh with no parsed record and an empty history reports no data and
\* leaves the file exactly as it was.
C8_NoDataNoWrite ==
    [][\A fault \in Faults :
          (RefreshWith(fault) /\ Fetched(fault) = <<>> /\ load_history(store) = <<>>)
              => (store' = store /\ ~resp'.success /\ resp'.data = <<>>)]_vars

\* C8, its case: a refresh over a non-empty channel has reported no data, and the
\* file is still missing or unreadable.
C8_NoDataReported ==
    /\ resp.route = "refresh"
    /\ ~resp.success
    /\ channel # <<>>
    /\ store \in {MissingFile, CorruptFile}

RowSet(df) == {df[i] : i \in 1..Len(df)}

\* C9: a refresh whose fetch fails (no channel, or an API error on any page) over a
\* non-empty history reports success with zero new records and saves exactly the
\* records load returned.
C9_FetchFailureKeepsHistory ==
    [][\A fault \in Faults :
          (RefreshWith(fault) /\ FetchFails(fault) /\ load_history(store) # <<>>)
              => /\ resp'.success
                 /\ resp'.new_count = 0
                 /\ store'.state = "ok"
                 /\ RowSet(store'.rows) = RowSet(load_history(store))]_vars

\* C9, its case: a refresh has reported success with zero new records although the
\* window holds more than one page of messages that parse to records.
C9_FailedOnLaterPage ==
    /\ Written
    /\ resp.new_count = 0
    /\ Len(Window(channel, oldest)) > PageLimit
    /\ parse_workflow_data(Window(channel, oldest)) # <<>>

\* C10: load gives status "success" and error_message "" to every record the file
\* holds without status, also next to records with status; a missing or unparsable
\* file loads as the empty record set.
\* Fails: the status column is only added when no record of the file has one.
C10_LoadBackfills ==
    /\ store.state # "ok" => load_history(store) = <<>>
    /\ store.state = "ok" =>
          \A i \in 1..Len(store.rows) :
              "status" \notin DOMAIN store.rows[i] =>
                  \A j \in 1..Len(load_history(store)) :
                      LET r == load_history(store)[j]
                      IN  (/\ r.workflow_name = store.rows[i].workflow_name
                           /\ r.date = Str10(store.rows[i].date)
                           /\ r.timestamp = store.rows[i].timestamp
                           /\ r.duration_seconds = store.rows[i].duration_seconds)
                          => (r.status = "success" /\ r.error_message = <<>>)

---------------------------------------------------------------------------
\* parse_workflow_data called on a batch in any arrival order, equal timestamps included.

OrderTexts == {StartText, EndText, BuildDone, LoadFail}

\* One more message of the batch, with any timestamp.
PostAnyOrder ==
    /\ ~workflow_data.called
    /\ Len(channel) < MaxShuffle
    /\ \E text \in OrderTexts, ts \in TimeStamps :
          channel' = Append(channel, [text |-> text, ts |-> ts])
    /\ UNCHANGED <<oldest, store, resp, pc, new_df, history_df, workflow_data,
                   duration_text, total_seconds>>

\* parse_workflow_data(messages), the batch in the order it arrived.
ParseArrived ==
    /\ ~workflow_data.called
    /\ workflow_data' = [called |-> TRUE, records |-> parse_workflow_data(channel)]
    /\ UNCHANGED <<channel, oldest, store, resp, pc, new_df, history_df,
                   duration_text, total_seconds>>

NextOrder == PostAnyOrder \/ ParseArrived

InitOrder == Init /\ store = MissingFile

SpecOrder == InitOrder /\ [][NextOrder]_vars

---------------------------------------------------------------------------
\* C11.  parse_duration.

\* The first integer of s that stands directly before one of the unit tokens, 0 if there is none.
FirstBefore(s, units) ==
    IF \E i \in 1..(Len(s) - 1) : IsDigits(s[i]) /\ s[i + 1] \in units
    THEN LET i == CHOOSE j \in 1..(Len(s) - 1) :
                      /\ IsDigits(s[j]) /\ s[j + 1] \in units
                      /\ \A k \in 1..(j - 1) : ~(IsDigits(s[k]) /\ s[k + 1] \in units)
         IN  IntOf(s[i])
    ELSE 0

\* C11: once parse_duration has returned, its result is the non-negative integer
\* minutes * 60 + seconds, minutes being the integer before the first min/mins token
\* and seconds the one before the first sec/secs token, each 0 when absent;
\* "19 mins, 42 secs" gives 1182, "45 secs" gives 45 and "" gives 0.
C11_MinutesAndSeconds ==
    total_seconds # None =>
        /\ total_seconds \in Nat
        /\ total_seconds = FirstBefore(duration_text, {"min", "mins"}) * 60
                            + FirstBefore(duration_text, {"sec", "secs"})
        /\ (\A i \in 1..Len(duration_text) :
                duration_text[i] \notin {"min", "mins", "sec", "secs"}) => total_seconds = 0
        /\ duration_text = <<"19", "mins", ",", "42", "secs">> => total_seconds = 1182
        /\ duration_text = <<"45", "secs">> => total_seconds = 45
        /\ duration_text = <<>> => total_seconds = 0

\* parse_duration has returned 1182 for "19 mins, 42 secs".
C11_BothComponents ==
    /\ duration_text = <<"19", "mins", ",", "42", "secs">>
    /\ total_seconds = 1182

---------------------------------------------------------------------------
\* C12.  The arrival order of a batch.

DistinctTs(messages) ==
    \A i, j \in 1..Len(messages) : i # j => messages[i].ts # messages[j].ts

\* The batch rearranged by the permutation p of its positions.
Permuted(messages, p) == [i \in 1..Len(messages) |-> messages[p[i]]]

\* The positions of the batch by ascending timestamp, equal timestamps by position.
AscendingOrder(messages) ==
    CHOOSE p \in Permutations(1..Len(messages)) :
        \A i, j \in 1..Len(messages) :
            i < j => \/ messages[p[i]].ts < messages[p[j]].ts
                     \/ messages[p[i]].ts = messages[p[j]].ts /\ p[i] < p[j]

\* The records of the messages processed one by one in the order given.
ProcessedInOrder(messages) == ParseLoop(ParseInit, messages).workflow_data

\* C12: the records parse_workflow_data returns for a batch are those of processing
\* its messages by ascending timestamp, messages of equal timestamp in their input
\* order; when the timestamps are pairwise distinct every permutation of the batch
\* gives the same sequence of records.
C12_ArrivalOrderIrrelevant ==
    workflow_data.called =>
        /\ workflow_data.records =
              ProcessedInOrder(Permuted(channel, AscendingOrder(channel)))
        /\ DistinctTs(channel) =>
              \A p \in Permutations(1..Len(channel)) :
                  parse_workflow_data(Permuted(channel, p)) = workflow_data.records

\* A batch parsed whose newest message arrived first and whose other two messages
\* carry one timestamp, a start marker ahead of its end marker.
C12_OutOfOrderWithTie ==
    /\ workflow_data.called
    /\ Len(channel) = 3
    /\ channel[1].ts > channel[2].ts
    /\ channel[2].ts = channel[3].ts
    /\ channel[1].text = LoadFail
    /\ channel[2].text = StartText
    /\ channel[3].text = EndText
    /\ Len(workflow_data.records) = 2

---------------------------------------------------------------------------
\* The loop of parse_workflow_data followed message by message (SpecParse).

\* The batch in the order the loop goes through it.
Processed == SortByTs(Reverse(channel))

\* The locals of parse_workflow_data before the first pass of the loop and after
\* each pass: element k is the state before the k-th pass, element k + 1 the state
\* after it.
RECURSIVE ParseTrace(_, _)
ParseTrace(st, messages) ==
    IF messages = <<>> THEN <<st>>
    ELSE <<st>> \o ParseTrace(ParseStep(st, Head(messages)), Tail(messages))

\* The records the k-th pass appended.
EmittedAt(trace, k) ==
    SubSeq(trace[k + 1].workflow_data,
           Len(trace[k].workflow_data) + 1, Len(trace[k + 1].workflow_data))

\* The session fields: current_date, start_time, prev_msg_datetime.
SessionOf(st) == <<st.current_date, st.start_time, st.prev_msg_datetime>>

IsEnd(msg) == Contains(msg.text, "Nightly Process Completed")
IsCompletion(msg) == CompletionEnds(msg.text) # {}
IsFailure(msg) == FailureEnds(FirstLine(msg.text)) # {}

TotalName == <<"TOTAL_NIGHTLY_PROCESS">>

\* The k-th pass appended a record named TOTAL_NIGHTLY_PROCESS.
TotalAt(trace, k) ==
    \E i \in 1..Len(EmittedAt(trace, k)) : EmittedAt(trace, k)[i].workflow_name = TotalName

\* The positions before k that hold a start marker.
StartsBefore(messages, k) == {j \in 1..(k - 1) : IsStart(messages[j])}

\* The time of the latest start marker before the k-th message.
LatestStart(messages, k) == messages[MaxOf(StartsBefore(messages, k))].ts

---------------------------------------------------------------------------
\* C13.  One TOTAL_NIGHTLY_PROCESS record per session.

\* C13: in the records of a parsed batch, two TOTAL_NIGHTLY_PROCESS records are
\* always separated by a start marker (at most one between one start marker and the
\* next or the end of the batch, also when several end markers follow one start
\* marker), and no message other than a marker yields a record of that name.
C13_OneTotalPerSession ==
    workflow_data.called =>
        LET msgs == Processed
            trace == ParseTrace(ParseInit, msgs)
        IN  /\ workflow_data.records = trace[Len(trace)].workflow_data
            /\ \A i, j \in 1..Len(msgs) :
                  (i < j /\ TotalAt(trace, i) /\ TotalAt(trace, j)) =>
                      \E k \in (i + 1)..j : IsStart(msgs[k])
            /\ \A k \in 1..Len(msgs) :
                  (~IsStart(msgs[k]) /\ ~IsEnd(msgs[k])) => ~TotalAt(trace, k)

---------------------------------------------------------------------------
\* C14.  error_message and status.

MessageIffError(df) ==
    \A i \in 1..Len(df) : (df[i].error_message = <<>>) <=> (df[i].status = "success")

\* C14: in every record the parser returns for the messages of the channel, and in
\* every record load_history returns for the file, error_message is empty exactly
\* when status is success.
C14_EmptyMessageIffSuccess ==
    /\ MessageIffError(Fetched(0))
    /\ MessageIffError(load_history(store))

---------------------------------------------------------------------------
\* C15.  Messages before the first start marker.

\* No start marker has been processed yet.
Idle(st) == st.current_date = None /\ st.start_time = None

\* C15: a pass of the loop over a message that is not a start marker, made while
\* no start marker has been processed, appends no record and leaves current_date,
\* start_time and prev_msg_datetime as they were.
C15_IdleStepChangesNothing ==
    workflow_data.called =>
        LET msgs == Processed
            trace == ParseTrace(ParseInit, msgs)
        IN  \A k \in 1..Len(msgs) :
                (Idle(trace[k]) /\ ~IsStart(msgs[k])) =>
                    /\ EmittedAt(trace, k) = <<>>
                    /\ SessionOf(trace[k + 1]) = SessionOf(trace[k])

---------------------------------------------------------------------------
\* C16.  The session after an end marker.

\* C16: once a start marker has been processed, every later completion or failure
\* line appends one record, whether or not an end marker came in between, and every
\* record the parser appends carries the calendar date of the latest start marker
\* before it, not that of its own message.
C16_EndKeepsSession ==
    workflow_data.called =>
        LET msgs == Processed
            trace == ParseTrace(ParseInit, msgs)
        IN  /\ workflow_data.records = trace[Len(trace)].workflow_data
            /\ \A k \in 1..Len(msgs) :
                  /\ ( /\ StartsBefore(msgs, k) # {}
                       /\ ~IsStart(msgs[k]) /\ ~IsEnd(msgs[k])
                       /\ IsCompletion(msgs[k]) \/ IsFailure(msgs[k]) )
                     => Len(EmittedAt(trace, k)) = 1
                  /\ \A i \in 1..Len(EmittedAt(trace, k)) :
                        /\ StartsBefore(msgs, k) # {}
                        /\ EmittedAt(trace, k)[i].date = Date(LatestStart(msgs, k))

\* A completion line after the end marker, a day after the start marker, has given
\* a record dated with the day of the start marker.
C16_RecordAfterEnd ==
    /\ workflow_data.called
    /\ Len(channel) = 3
    /\ channel[1].text = StartText
    /\ channel[2].text = EndText
    /\ channel[3].text = BuildDone
    /\ Date(channel[3].ts) > Date(channel[1].ts)
    /\ Len(workflow_data.records) = 2
    /\ workflow_data.records[2].workflow_name = <<"Build">>
    /\ workflow_data.records[2].date = Date(channel[1].ts)

---------------------------------------------------------------------------
\* C17.  The duration of a failure.

\* The message matches none of the four patterns.
IsOther(msg) == ~IsStart(msg) /\ ~IsEnd(msg) /\ ~IsCompletion(msg) /\ ~IsFailure(msg)

\* C17: every record of status error was appended after a start marker and its
\* duration is the time of its message minus the time of the message processed just
\* before it, whatever that message was; a message that matches no pattern, met
\* after a start marker, appends nothing and becomes the baseline.
C17_FailureSincePrevious ==
    workflow_data.called =>
        LET msgs == Processed
            trace == ParseTrace(ParseInit, msgs)
        IN  /\ workflow_data.records = trace[Len(trace)].workflow_data
            /\ \A k \in 1..Len(msgs) :
                  /\ \A i \in 1..Len(EmittedAt(trace, k)) :
                        EmittedAt(trace, k)[i].status = "error" =>
                            /\ StartsBefore(msgs, k) # {}
                            /\ EmittedAt(trace, k)[i].duration_seconds
                                  = msgs[k].ts - msgs[k - 1].ts
                  /\ (StartsBefore(msgs, k) # {} /\ IsOther(msgs[k])) =>
                        /\ EmittedAt(trace, k) = <<>>
                        /\ trace[k + 1].prev_msg_datetime = msgs[k].ts

\* A failure after an unrecognised line in a session: its duration runs from that line.
C17_FailureAfterChatter ==
    /\ workflow_data.called
    /\ Len(channel) = 3
    /\ channel[1].text = StartText
    /\ channel[2].text = Chatter
    /\ channel[3].text = LoadFail
    /\ Len(workflow_data.records) = 1
    /\ workflow_data.records[1].status = "error"
    /\ workflow_data.records[1].duration_seconds = channel[3].ts - channel[2].ts

---------------------------------------------------------------------------
\* C18.  A start marker inside a session.

\* C18: a start marker appends no record and sets current_date, start_time and
\* prev_msg_datetime from its own time, also inside a session; the record an end
\* marker appends is the session total measured from the latest start marker
\* before it.
C18_RestartAbandonsSession ==
    workflow_data.called =>
        LET msgs == Processed
            trace == ParseTrace(ParseInit, msgs)
        IN  /\ workflow_data.records = trace[Len(trace)].workflow_data
            /\ \A k \in 1..Len(msgs) :
                  /\ IsStart(msgs[k]) =>
                        /\ EmittedAt(trace, k) = <<>>
                        /\ SessionOf(trace[k + 1])
                              = <<Date(msgs[k].ts), msgs[k].ts, msgs[k].ts>>
                  /\ (~IsStart(msgs[k]) /\ IsEnd(msgs[k])) =>
                        \A i \in 1..Len(EmittedAt(trace, k)) :
                            /\ StartsBefore(msgs, k) # {}
                            /\ EmittedAt(trace, k)[i].workflow_name = TotalName
                            /\ EmittedAt(trace, k)[i].duration_seconds
                                  = msgs[k].ts - LatestStart(msgs, k)

\* Two start markers, then an end marker: one total, measured from the second.
C18_TotalFromSecondStart ==
    /\ workflow_data.called
    /\ Len(channel) = 3
    /\ channel[1].text = StartText
    /\ channel[2].text = StartText
    /\ channel[3].text = EndText
    /\ Len(workflow_data.records) = 1
    /\ workflow_data.records[1].duration_seconds = channel[3].ts - channel[2].ts

---------------------------------------------------------------------------
\* C19.  Durations are not negative.

\* C19: whatever the order in which the messages of a batch arrive, every record
\* parse_workflow_data returns has a duration_seconds of at least 0.
C19_DurationsNotNegative ==
    workflow_data.called =>
        \A i \in 1..Len(workflow_data.records) :
            workflow_data.records[i].duration_seconds >= 0

\* A batch that arrived newest first has given a session total and a failure, both
\* of positive duration.
C19_NewestFirstParsed ==
    /\ workflow_data.called
    /\ Len(channel) = 3
    /\ channel[1].text = EndText
    /\ channel[2].text = LoadFail
    /\ channel[3].text = StartText
    /\ channel[1].ts > channel[2].ts
    /\ channel[2].ts > channel[3].ts
    /\ Len(workflow_data.records) = 2
    /\ workflow_data.records[1].duration_seconds = channel[2].ts - channel[3].ts
    /\ workflow_data.records[2].duration_seconds = channel[1].ts - channel[3].ts

---------------------------------------------------------------------------
\* C20.  One rule per message.

\* C20: a pass of the loop appends at most one record and treats its message by the
\* first pattern it matches, in the order start marker, end marker, completion,
\* failure: a message with the start marker only starts a session; one with the end
\* marker gives nothing but the session total; a line of completion shape gives
\* nothing but a success record; a line of failure shape only, nothing but an error
\* record; any other message gives no record.
C20_OneRulePerMessage ==
    workflow_data.called =>
        LET msgs == Processed
            trace == ParseTrace(ParseInit, msgs)
        IN  /\ workflow_data.records = trace[Len(trace)].workflow_data
            /\ \A k \in 1..Len(msgs) :
                  LET out == EmittedAt(trace, k)
                      OnlyStart == /\ out = <<>>
                                   /\ trace[k + 1].start_time = msgs[k].ts
                      OnlyEnd == /\ \A i \in 1..Len(out) :
                                       /\ out[i].workflow_name = TotalName
                                       /\ out[i].status = "success"
                                 /\ trace[k + 1].start_time = trace[k].start_time
                      OnlyCompletion == /\ \A i \in 1..Len(out) :
                                              /\ out[i].workflow_name # TotalName
                                                    \/ msgs[k].text = TotalDone
                                              /\ out[i].status = "success"
                                        /\ trace[k + 1].start_time = trace[k].start_time
                      OnlyFailure == /\ \A i \in 1..Len(out) : out[i].status = "error"
                                     /\ trace[k + 1].start_time = trace[k].start_time
                  IN  /\ Len(out) <= 1
                      /\ IF IsStart(msgs[k]) THEN OnlyStart
                         ELSE IF IsEnd(msgs[k]) THEN OnlyEnd
                         ELSE IF IsCompletion(msgs[k]) THEN OnlyCompletion
                         ELSE IF IsFailure(msgs[k]) THEN OnlyFailure
                         ELSE out = <<>>

\* A session in which a line with both markers and the completion shape only
\* restarted the session, a line of failure and completion shape gave a success
\* record, and a line with the end marker and both shapes gave the session total.
C20_SeveralPatternsMatched ==
    /\ workflow_data.called
    /\ Len(channel) = 4
    /\ channel[1].text = StartText
    /\ channel[2].text = StartDone
    /\ channel[3].text = FailDone
    /\ channel[4].text = EndDone
    /\ Len(workflow_data.records) = 2
    /\ workflow_data.records[1].workflow_name = <<"Sync", ":", "Failure">>
    /\ workflow_data.records[1].status = "success"
    /\ workflow_data.records[2].workflow_name = TotalName
    /\ workflow_data.records[2].duration_seconds = channel[4].ts - channel[2].ts

====
